---------------------------- MODULE Spec2Model ----------------------------
(***************************************************************************)
(* Model of include_sorter.py: the header resolver, the include classifier *)
(* and the file reconstructor (sort_single_file), driven by the main loop  *)
(* over files_to_process.                                                  *)
(*                                                                         *)
(* Text is modelled as a sequence of atoms.  An atom is a short literal    *)
(* piece of text ("#include", " ", "<", "Foo", ".h", ...).  The atoms are  *)
(* prefix-free, so comparing two atom sequences atom by atom in the order  *)
(* of AtomOrder is Python's character-wise string comparison.  A line is a *)
(* sequence of atoms, a file's text is a sequence of atoms with newline    *)
(* atoms, a path is a sequence of parts and a part is a sequence of atoms. *)
(***************************************************************************)
EXTENDS Integers, Sequences, FiniteSets, TLC

\* ------------------------------------------------------------------------
\* Bounds of the model
\* ------------------------------------------------------------------------

\* Longest file (in lines) of the layout specification.
MaxLines == 5

\* Longest file (in include lines) of the resolver/grouping specification.
MaxIncludes == 3

\* ------------------------------------------------------------------------
\* Strings
\* ------------------------------------------------------------------------

\* Every atom, in Python's string order (code point by code point).
AtomOrder ==
    << " ", "\"", "#include", ".cpp", ".h", "/", "<", ">", "Audio", "Bar",
       "Chat", "Core", "Engine", "Foo", "Game", "MACRO", "Net", "Other",
       "Plugins", "Proj", "Public", "Qux", "Sockets", "Source", "UE",
       "Unknown", "Widgets", "\\", "int x;", "map", "plugins", "source",
       "vector" >>

Rank(a) == CHOOSE i \in 1..Len(AtomOrder) : AtomOrder[i] = a

\* str < str
StrLess(a, b) ==
    LET n == IF Len(a) < Len(b) THEN Len(a) ELSE Len(b)
        diff == {i \in 1..n : a[i] /= b[i]}
    IN  IF diff = {}
        THEN Len(a) < Len(b)
        ELSE LET k == CHOOSE i \in diff : \A j \in diff : i <= j
             IN  Rank(a[k]) < Rank(b[k])

\* str.lower(), atom by atom
LowerAtom(a) ==
    CASE a = "Source"  -> "source"
      [] a = "Plugins" -> "plugins"
      [] a = "Engine"  -> "engine"
      [] a = "Game"    -> "game"
      [] a = "Widgets" -> "widgets"
      [] a = "Audio"   -> "audio"
      [] a = "Core"    -> "core"
      [] a = "Net"     -> "net"
      [] a = "Chat"    -> "chat"
      [] a = "Sockets" -> "sockets"
      [] a = "Proj"    -> "proj"
      [] a = "UE"      -> "ue"
      [] a = "Public"  -> "public"
      [] a = "Foo"     -> "foo"
      [] a = "Bar"     -> "bar"
      [] a = "Qux"     -> "qux"
      [] OTHER         -> a

Lower(s) == [i \in 1..Len(s) |-> LowerAtom(s[i])]

IsSpace(a) == a \in {" ", "\t", "\n", "\r"}

RECURSIVE LStrip(_)
LStrip(s) ==
    IF s /= <<>> /\ IsSpace(Head(s)) THEN LStrip(Tail(s)) ELSE s

RECURSIVE RStrip(_)
RStrip(s) ==
    IF s /= <<>> /\ IsSpace(s[Len(s)])
    THEN RStrip(SubSeq(s, 1, Len(s) - 1))
    ELSE s

\* str.strip()
Strip(s) == RStrip(LStrip(s))

\* str.endswith(suffix)
EndsWith(s, suffix) ==
    /\ Len(suffix) <= Len(s)
    /\ SubSeq(s, Len(s) - Len(suffix) + 1, Len(s)) = suffix

\* str.replace(old, new) for a one-atom old and new
Replace(s, old, new) == [i \in 1..Len(s) |-> IF s[i] = old THEN new ELSE s[i]]

\* "\n".join(lines)
RECURSIVE Join(_)
Join(ls) ==
    IF ls = <<>> THEN <<>>
    ELSE IF Len(ls) = 1 THEN ls[1]
    ELSE ls[1] \o <<"\n">> \o Join(Tail(ls))

\* str.splitlines() of a decoded text: the pieces between "\n" atoms; a final
\* "\n" opens no further (empty) line.
RECURSIVE SplitLines(_, _)
SplitLines(text, cur) ==
    IF text = <<>>
    THEN IF cur = <<>> THEN <<>> ELSE <<cur>>
    ELSE IF Head(text) = "\n"
         THEN <<cur>> \o SplitLines(Tail(text), <<>>)
         ELSE SplitLines(Tail(text), Append(cur, Head(text)))

\* re.sub(r'\n{3,}', '\n\n', text): run is the number of "\n" atoms just
\* copied; a third and any further "\n" of a run is not copied.
RECURSIVE CollapseNewlines(_, _)
CollapseNewlines(text, run) ==
    IF text = <<>> THEN <<>>
    ELSE IF Head(text) = "\n"
         THEN IF run >= 2
              THEN CollapseNewlines(Tail(text), run)
              ELSE <<"\n">> \o CollapseNewlines(Tail(text), run + 1)
         ELSE <<Head(text)>> \o CollapseNewlines(Tail(text), 0)

\* sorted(list of str): a stable insertion sort
RECURSIVE InsertSorted(_, _)
InsertSorted(x, s) ==
    IF s = <<>> THEN <<x>>
    ELSE IF StrLess(x, Head(s))
         THEN <<x>> \o s
         ELSE <<Head(s)>> \o InsertSorted(x, Tail(s))

RECURSIVE SortFrom(_, _)
SortFrom(s, acc) ==
    IF s = <<>> THEN acc ELSE SortFrom(Tail(s), InsertSorted(Head(s), acc))

\* A plausible slip: the group is emitted in insertion order.
Sorted_unsorted(s) == s

Sorted(s) == SortFrom(s, <<>>)

\* ------------------------------------------------------------------------
\* Paths (pathlib)
\* ------------------------------------------------------------------------

NoPath == <<>>

\* Path.name
Name(path) == path[Len(path)]

\* Path.stem: the name without its last suffix
Stem(path) ==
    LET n == Name(path)
    IN  IF Len(n) > 1 /\ n[Len(n)] \in {".h", ".cpp"}
        THEN SubSeq(n, 1, Len(n) - 1)
        ELSE n

\* Path.parent.parts
ParentParts(path) == SubSeq(path, 1, Len(path) - 1)

\* Path.as_posix() of an absolute path: the root, then the parts joined by "/"
RECURSIVE JoinParts(_)
JoinParts(parts) ==
    IF parts = <<>> THEN <<>>
    ELSE IF Len(parts) = 1 THEN parts[1]
    ELSE parts[1] \o <<"/">> \o JoinParts(Tail(parts))

AsPosix(path) == <<"/">> \o JoinParts(Tail(path))

\* Path(content).name: the text after the last "/"
RECURSIVE ContentName(_)
ContentName(content) ==
    IF \E i \in 1..Len(content) : content[i] = "/"
    THEN ContentName(Tail(content))
    ELSE content


\* ------------------------------------------------------------------------
\* Header resolver
\* ------------------------------------------------------------------------

NoContent == <<>>

\* The regular expression #include\s+["<]([^">]+)[">] matched at position p of
\* the line: the group's text, or NoContent when there is no match at p.
ContentAt(line, p) ==
    IF line[p] /= "#include" THEN NoContent
    ELSE LET after == {q \in (p + 1)..Len(line) : ~IsSpace(line[q])}
         IN  IF after = {} THEN NoContent
             ELSE LET q == CHOOSE i \in after : \A j \in after : i <= j
                      closers == {j \in (q + 1)..Len(line) : line[j] \in {"\"", ">"}}
                  IN  IF q < p + 2 \/ line[q] \notin {"\"", "<"} \/ closers = {}
                      THEN NoContent
                      ELSE LET j == CHOOSE i \in closers : \A k \in closers : i <= k
                           IN  SubSeq(line, q + 1, j - 1)

\* re.search: the leftmost position with a match
get_include_content(line) ==
    LET hits == {p \in 1..Len(line) : ContentAt(line, p) /= NoContent}
    IN  IF hits = {} THEN NoContent
        ELSE ContentAt(line, CHOOSE p \in hits : \A r \in hits : p <= r)

find_exact_match(candidates, include_string) ==
    LET clean_include == Replace(include_string, "\\", "/")
        hits == {i \in 1..Len(candidates) :
                    EndsWith(AsPosix(candidates[i]), clean_include)}
    IN  IF hits = {} THEN NoPath
        ELSE candidates[CHOOSE i \in hits : \A j \in hits : i <= j]

\* The inner loop of get_nearest_neighbor: the number of leading parts the two
\* directories share, counted from part i on.
RECURSIVE ScoreFrom(_, _, _)
ScoreFrom(current_parts, candidate_parts, i) ==
    LET min_len == IF Len(current_parts) < Len(candidate_parts)
                   THEN Len(current_parts) ELSE Len(candidate_parts)
    IN  IF i <= min_len /\ current_parts[i] = candidate_parts[i]
        THEN 1 + ScoreFrom(current_parts, candidate_parts, i + 1)
        ELSE 0

\* The outer loop of get_nearest_neighbor from candidate k on.
RECURSIVE NearestFrom(_, _, _, _, _)
NearestFrom(current_parts, candidates, k, best_candidate, best_score) ==
    IF k > Len(candidates) THEN best_candidate
    ELSE LET score == ScoreFrom(current_parts, ParentParts(candidates[k]), 1)
         IN  IF score > best_score
             THEN NearestFrom(current_parts, candidates, k + 1, candidates[k], score)
             ELSE NearestFrom(current_parts, candidates, k + 1, best_candidate, best_score)

\* The outer loop with >= for >: among equal scores the last candidate wins.
RECURSIVE NearestFromLast(_, _, _, _, _)
NearestFromLast(current_parts, candidates, k, best_candidate, best_score) ==
    IF k > Len(candidates) THEN best_candidate
    ELSE LET score == ScoreFrom(current_parts, ParentParts(candidates[k]), 1)
         IN  IF score >= best_score
             THEN NearestFromLast(current_parts, candidates, k + 1, candidates[k], score)
             ELSE NearestFromLast(current_parts, candidates, k + 1, best_candidate, best_score)

\* A plausible slip: score >= best_score.
get_nearest_neighbor_last(current_file, candidates) ==
    NearestFromLast(ParentParts(current_file), candidates, 1, NoPath, -1)

get_nearest_neighbor(current_file, candidates) ==
    NearestFrom(ParentParts(current_file), candidates, 1, NoPath, -1)

\* sort_single_file's choice of correct_path among the candidates of one
\* include; NoPath when there is no candidate.
Resolve(target_path, content, candidates) ==
    IF candidates = <<>> THEN NoPath
    ELSE IF Len(candidates) = 1 THEN candidates[1]
    ELSE LET exact == find_exact_match(candidates, content)
         IN  IF exact /= NoPath THEN exact
             ELSE get_nearest_neighbor(target_path, candidates)

\* ------------------------------------------------------------------------
\* Module namer and include classifier
\* ------------------------------------------------------------------------

NoName == <<>>

get_module_name(path) ==
    LET hits == {i \in 1..Len(path) : Lower(path[i]) = <<"source">>}
    IN  IF hits = {} THEN NoName
        ELSE LET idx == CHOOSE i \in hits : \A j \in hits : i <= j
             IN  IF idx + 1 <= Len(path) THEN path[idx + 1] ELSE NoName

HasPart(path, part) == \E i \in 1..Len(path) : path[i] = part

\* The plugin name of a path with a "Plugins" part
PluginName(correct_path) ==
    LET hits == {i \in 1..Len(correct_path) : Lower(correct_path[i]) = <<"plugins">>}
        p_idx == CHOOSE i \in hits : \A j \in hits : i <= j
    IN  IF hits /= {} /\ p_idx + 1 <= Len(correct_path)
        THEN correct_path[p_idx + 1]
        ELSE <<"Unknown">>

\* A plausible slip: the engine test is made before the main-header test.
Classify_engine_first(target_path, correct_path) ==
    LET current_mod_name == get_module_name(target_path)
        other_mod_name == get_module_name(correct_path)
    IN  IF HasPart(correct_path, <<"Engine">>) \/ HasPart(correct_path, <<"UnrealEngine">>)
        THEN [kind |-> "engine", key |-> NoName]
        ELSE IF Stem(target_path) = Stem(correct_path)
        THEN [kind |-> "main_header", key |-> NoName]
        ELSE IF /\ current_mod_name /= NoName
                /\ other_mod_name /= NoName
                /\ Lower(current_mod_name) = Lower(other_mod_name)
        THEN [kind |-> "same_module", key |-> NoName]
        ELSE IF HasPart(correct_path, <<"Plugins">>)
        THEN [kind |-> "plugins", key |-> PluginName(correct_path)]
        ELSE [kind |-> "other_module",
              key |-> IF other_mod_name /= NoName THEN other_mod_name ELSE <<"Other">>]

\* The bucket of a resolved include: the if/elif chain of sort_single_file.
Classify(target_path, correct_path) ==
    LET current_mod_name == get_module_name(target_path)
        other_mod_name == get_module_name(correct_path)
    IN  IF Stem(target_path) = Stem(correct_path)
        THEN [kind |-> "main_header", key |-> NoName]
        ELSE IF HasPart(correct_path, <<"Engine">>) \/ HasPart(correct_path, <<"UnrealEngine">>)
        THEN [kind |-> "engine", key |-> NoName]
        ELSE IF /\ current_mod_name /= NoName
                /\ other_mod_name /= NoName
                /\ Lower(current_mod_name) = Lower(other_mod_name)
        THEN [kind |-> "same_module", key |-> NoName]
        ELSE IF HasPart(correct_path, <<"Plugins">>)
        THEN [kind |-> "plugins", key |-> PluginName(correct_path)]
        ELSE [kind |-> "other_module",
              key |-> IF other_mod_name /= NoName THEN other_mod_name ELSE <<"Other">>]

\* ------------------------------------------------------------------------
\* File reconstructor: partition, classification loop, reassembly
\* ------------------------------------------------------------------------

Blank == <<>>

IsIncludeLine(line) ==
    LET clean == Strip(line) IN clean /= <<>> /\ clean[1] = "#include"

IsBlankLine(line) == Strip(line) = <<>>

ScanStart ==
    [include_lines |-> <<>>, other_lines_top |-> <<>>, other_lines_bottom |-> <<>>,
     inside_include_block |-> FALSE, finished_includes |-> FALSE]

\* One iteration of the partition loop.
ScanStep(st, line) ==
    IF IsIncludeLine(line)
    THEN [st EXCEPT !.include_lines = Append(@, line),
                    !.inside_include_block = TRUE]
    ELSE IF st.inside_include_block
    THEN IF IsBlankLine(line)
         THEN st
         ELSE [st EXCEPT !.finished_includes = TRUE,
                         !.inside_include_block = FALSE,
                         !.other_lines_bottom = Append(@, line)]
    ELSE IF st.finished_includes
    THEN [st EXCEPT !.other_lines_bottom = Append(@, line)]
    ELSE [st EXCEPT !.other_lines_top = Append(@, line)]

\* A dict of lists in insertion order: a sequence of [key, lines].
Keys(d) == [i \in 1..Len(d) |-> d[i].key]

Lookup(d, k) == (d[CHOOSE i \in 1..Len(d) : d[i].key = k]).lines

DictAppend(d, k, line) ==
    IF \E i \in 1..Len(d) : d[i].key = k
    THEN [i \in 1..Len(d) |->
            IF d[i].key = k THEN [d[i] EXCEPT !.lines = Append(@, line)] ELSE d[i]]
    ELSE Append(d, [key |-> k, lines |-> <<line>>])

NoBuckets ==
    [main_header |-> <<>>, same_module |-> <<>>, other_module |-> <<>>,
     plugins |-> <<>>, engine |-> <<>>, stl |-> <<>>, trace |-> <<>>]

\* header_map.get(filename)
Candidates(index, filename) ==
    IF filename \in DOMAIN index THEN index[filename] ELSE <<>>

\* One iteration of the classification loop.  trace records the iteration's
\* locals: the line, its content, its candidates, correct_path and the bucket.
ClassifyStep(b, line, target_path, index) ==
    LET content == get_include_content(line)
        candidates == Candidates(index, ContentName(content))
        correct_path == Resolve(target_path, content, candidates)
        c == Classify(target_path, correct_path)
        entry == [line |-> line, content |-> content, candidates |-> candidates,
                  path |-> NoPath, kind |-> "dropped", key |-> NoName]
    IN  IF content = NoContent
        THEN [b EXCEPT !.trace = Append(@, entry)]
        ELSE IF candidates = <<>>
        THEN [b EXCEPT !.stl = Append(@, line),
                       !.trace = Append(@, [entry EXCEPT !.kind = "stl"])]
        ELSE LET e == [entry EXCEPT !.path = correct_path, !.kind = c.kind, !.key = c.key]
             IN  CASE c.kind = "main_header" ->
                        [b EXCEPT !.main_header = Append(@, line), !.trace = Append(@, e)]
                   [] c.kind = "engine" ->
                        [b EXCEPT !.engine = Append(@, line), !.trace = Append(@, e)]
                   [] c.kind = "same_module" ->
                        [b EXCEPT !.same_module = Append(@, line), !.trace = Append(@, e)]
                   [] c.kind = "plugins" ->
                        [b EXCEPT !.plugins = DictAppend(@, c.key, line), !.trace = Append(@, e)]
                   [] OTHER ->
                        [b EXCEPT !.other_module = DictAppend(@, c.key, line), !.trace = Append(@, e)]

RECURSIVE ClassifyFrom(_, _, _, _)
ClassifyFrom(include_lines, b, target_path, index) ==
    IF include_lines = <<>> THEN b
    ELSE ClassifyFrom(Tail(include_lines),
                      ClassifyStep(b, Head(include_lines), target_path, index),
                      target_path, index)

\* while other_lines_top and not other_lines_top[-1].strip(): pop()
RECURSIVE TrimTop(_)
TrimTop(top) ==
    IF top /= <<>> /\ IsBlankLine(top[Len(top)])
    THEN TrimTop(SubSeq(top, 1, Len(top) - 1))
    ELSE top

\* while other_lines_bottom and not other_lines_bottom[0].strip(): pop(0)
RECURSIVE TrimBottom(_)
TrimBottom(bottom) ==
    IF bottom /= <<>> /\ IsBlankLine(Head(bottom))
    THEN TrimBottom(Tail(bottom))
    ELSE bottom

\* if main_header: extend(main_header); append("")
MainBlock(group) == IF group /= <<>> THEN group \o <<Blank>> ELSE <<>>

\* if group: extend(sorted(group)); append("")   (same_module, engine)
SortedBlock(group) == IF group /= <<>> THEN Sorted(group) \o <<Blank>> ELSE <<>>

\* for key in sorted(d.keys()): extend(sorted(d[key])); append("")
RECURSIVE BlocksOf(_, _)
BlocksOf(d, keys) ==
    IF keys = <<>> THEN <<>>
    ELSE Sorted(Lookup(d, Head(keys))) \o <<Blank>> \o BlocksOf(d, Tail(keys))

KeyedBlocks(d) == BlocksOf(d, Sorted(Keys(d)))

\* A plausible slip: the unresolved includes are emitted in insertion order.
ExternalBlock_unsorted(stl) == IF stl /= <<>> THEN stl \o <<Blank>> ELSE <<>>

\* if stl: extend(sorted(stl)); append("")
ExternalBlock(stl) == IF stl /= <<>> THEN Sorted(stl) \o <<Blank>> ELSE <<>>

\* Step 5 of sort_single_file: new_content
Reassemble(st, b) ==
    TrimTop(st.other_lines_top) \o <<Blank>>
      \o MainBlock(b.main_header)
      \o SortedBlock(b.same_module)
      \o KeyedBlocks(b.other_module)
      \o KeyedBlocks(b.plugins)
      \o SortedBlock(b.engine)
      \o ExternalBlock(b.stl)
      \o TrimBottom(st.other_lines_bottom)

\* Step 6 of sort_single_file: final_text
FinalText(content) == RStrip(CollapseNewlines(Join(content), 0)) \o <<"\n">>

\* ------------------------------------------------------------------------
\* Files on disk: [exists, readable, decodable, bom, text]; text is the
\* file's bytes after the byte-order mark, with "\n", "\r\n" and "\r" atoms.
\* ------------------------------------------------------------------------

\* original_newline
DetectNewline(text) ==
    IF \E i \in 1..Len(text) : text[i] = "\r\n" THEN "\r\n" ELSE "\n"

\* read_text: universal newlines
Decode(text) ==
    [i \in 1..Len(text) |-> IF text[i] \in {"\r\n", "\r"} THEN "\n" ELSE text[i]]

\* write with newline=original_newline
Encode(text, newline) == Replace(text, "\n", newline)

\* The partition loop over all the lines
RECURSIVE ScanFrom(_, _)
ScanFrom(ls, st) ==
    IF ls = <<>> THEN st ELSE ScanFrom(Tail(ls), ScanStep(st, Head(ls)))

\* sort_single_file on a file that exists and can be read, decoded and
\* written: the file it leaves on disk.
RewriteFile(file, path, index) ==
    LET st == ScanFrom(SplitLines(Decode(file.text), <<>>), ScanStart)
        b == ClassifyFrom(st.include_lines, NoBuckets, path, index)
    IN  IF st.include_lines = <<>> THEN file
        ELSE [file EXCEPT !.text = Encode(FinalText(Reassemble(st, b)),
                                          DetectNewline(file.text))]

\* ------------------------------------------------------------------------
\* The inputs the model draws from
\* ------------------------------------------------------------------------

Dir(names) == <<<<"/">>>> \o [i \in 1..Len(names) |-> <<names[i]>>]

Header(names, stem) == Dir(names) \o <<<<stem, ".h">>>>

\* The files given on the command line
FooCpp == Dir(<<"Proj", "Source", "Game">>) \o <<<<"Foo", ".cpp">>>>
QuxCpp == Dir(<<"Proj", "Source", "Widgets">>) \o <<<<"Qux", ".cpp">>>>

\* The headers of the indexed trees
GameFoo  == Header(<<"Proj", "Source", "Game">>, "Foo")
EngFoo   == Header(<<"UE", "Engine", "Source", "Core">>, "Foo")
PlugFoo  == Header(<<"Proj", "Plugins", "Net", "Source", "Sockets">>, "Foo")
GameBar  == Header(<<"Proj", "Source", "Game">>, "Bar")
WidBar   == Header(<<"Proj", "Source", "Widgets">>, "Bar")
AudBar   == Header(<<"Proj", "Source", "Audio">>, "Bar")
PlugBar  == Header(<<"Proj", "Plugins", "Net", "Source", "Sockets">>, "Bar")
EngBar   == Header(<<"UE", "Engine", "Source", "Core">>, "Bar")
AudQux   == Header(<<"Proj", "source", "Audio">>, "Qux")
ChatQux  == Header(<<"Proj", "Plugins", "Chat", "Source", "Sockets">>, "Qux")
PlugGameQux == Header(<<"Proj", "Plugins", "Net", "Source", "Game">>, "Qux")
LooseQux == Header(<<"Proj", "Public">>, "Qux")

FooH == <<"Foo", ".h">>
BarH == <<"Bar", ".h">>
QuxH == <<"Qux", ".h">>

\* Header indexes: the same trees in several traversal orders
Indexes ==
    { (FooH :> <<GameFoo>>) @@ (BarH :> <<WidBar, GameBar>>) @@ (QuxH :> <<AudQux>>),
      (FooH :> <<EngFoo>>) @@ (BarH :> <<GameBar, WidBar>>) @@ (QuxH :> <<PlugGameQux>>),
      (FooH :> <<PlugFoo>>) @@ (BarH :> <<PlugBar, WidBar, AudBar>>) @@ (QuxH :> <<LooseQux>>),
      (FooH :> <<EngFoo, GameFoo>>) @@ (BarH :> <<PlugBar, EngBar>>) @@ (QuxH :> <<ChatQux>>) }

Quoted(content) == <<"#include", " ", "\"">> \o content \o <<"\"">>
Angled(content) == <<"#include", " ", "<">> \o content \o <<">">>

IncFoo    == Quoted(<<"Foo", ".h">>)
IncBar    == Quoted(<<"Bar", ".h">>)
IncQux    == Quoted(<<"Qux", ".h">>)
IncPubBar == Quoted(<<"Public", "/", "Bar", ".h">>)
IncWidBar == Quoted(<<"Widgets", "/", "Bar", ".h">>)
IncVector == Angled(<<"vector">>)
IncMap    == Angled(<<"map">>)
IncMacro  == <<"#include", " ", "MACRO">>
IncMapSp  == Angled(<<"map">>) \o <<" ">>
IncMapSp2 == Angled(<<"map">>) \o <<" ", " ">>
CodeLine  == <<"int x;">>

\* The lines of the resolver/grouping specification
IncludeVocabulary ==
    {IncFoo, IncBar, IncQux, IncPubBar, IncWidBar, IncVector, IncMap, IncMacro}

\* The lines of the layout specification
LayoutVocabulary == {Blank, CodeLine, IncMapSp, IncMapSp2, IncMacro}

SeqsUpTo(S, n) == UNION {[1..k -> S] : k \in 0..n}

\* A file's bytes: every line ended by the style's newline ("mixed": the first
\* line by "\r\n", the others by "\n").
RECURSIVE TextOf(_, _)
TextOf(ls, style) ==
    IF ls = <<>> THEN <<>>
    ELSE ls[1] \o <<IF style = "lf" THEN "\n" ELSE "\r\n">>
               \o TextOf(Tail(ls), IF style = "crlf" THEN "crlf" ELSE "lf")

Formats == {[bom |-> FALSE, style |-> "lf"], [bom |-> TRUE, style |-> "crlf"],
            [bom |-> FALSE, style |-> "mixed"]}

FileOf(status, ls, format) ==
    [exists |-> status /= "missing",
     readable |-> status /= "unreadable",
     decodable |-> status /= "undecodable",
     bom |-> format.bom,
     text |-> TextOf(ls, format.style)]

Statuses == {"ok", "missing", "unreadable", "undecodable"}

\* ------------------------------------------------------------------------
\* State
\* ------------------------------------------------------------------------

VARIABLES
    header_map,        \* the global index: filename -> list of paths
    disk,              \* path -> file
    original,          \* history: the disk when the run began
    files_to_process,  \* the list the main loop walks
    file_index,        \* the main loop's position in files_to_process
    pc,                \* "main", "scan", "write" or "exit"
    outcome,           \* path -> what sort_single_file reported for it
    format,            \* has_bom and original_newline of the file being sorted
    lines,             \* its lines
    line_index,        \* the partition loop's position in lines
    scan,              \* the partition loop's locals
    buckets,           \* the classification loop's result
    new_content,       \* step 5
    final_text         \* step 6

vars == <<header_map, disk, original, files_to_process, file_index, pc, outcome,
          format, lines, line_index, scan, buckets, new_content, final_text>>

locals == <<format, lines, line_index, scan, buckets, new_content, final_text>>

Paths == {FooCpp, QuxCpp}

InitWith(indexes, contents, formats, lists) ==
    /\ header_map \in indexes
    /\ \E status \in Statuses :
         \E ls \in (IF status = "ok" THEN contents ELSE {<<IncBar>>}) :
           \E f \in (IF status = "ok" THEN formats ELSE {[bom |-> FALSE, style |-> "lf"]}) :
             disk = (FooCpp :> FileOf(status, ls, f))
                      @@ (QuxCpp :> FileOf("ok", <<IncBar, CodeLine>>, f))
    /\ original = disk
    /\ files_to_process \in lists
    /\ file_index = 1
    /\ pc = "main"
    /\ outcome = [p \in Paths |-> "pending"]
    /\ format = [has_bom |-> FALSE, original_newline |-> "\n"]
    /\ lines = <<>>
    /\ line_index = 1
    /\ scan = ScanStart
    /\ buckets = NoBuckets
    /\ new_content = <<>>
    /\ final_text = <<>>

\* Layout: files of blank, code and include lines; two files in the list.
Init ==
    InitWith({(BarH :> <<WidBar, GameBar>>)}, SeqsUpTo(LayoutVocabulary, MaxLines),
             Formats, {<<FooCpp, QuxCpp>>})

\* Resolver and grouping: files of include lines against every index.
InitIncludes ==
    InitWith(Indexes, SeqsUpTo(IncludeVocabulary, MaxIncludes),
             {[bom |-> FALSE, style |-> "lf"]}, {<<FooCpp>>})

\* ------------------------------------------------------------------------
\* sort_single_file, step by step, under the main loop
\* ------------------------------------------------------------------------

target_path == files_to_process[file_index]

Report(result) ==
    /\ outcome' = [outcome EXCEPT ![target_path] = result]
    /\ file_index' = file_index + 1
    /\ pc' = "main"

\* if not target_path.exists(): return
FileNotFound ==
    /\ pc = "main" /\ file_index <= Len(files_to_process)
    /\ ~disk[target_path].exists
    /\ Report("not_found")
    /\ UNCHANGED <<header_map, disk, original, files_to_process, locals>>

\* read_bytes() raises
ReadBytesFail ==
    /\ pc = "main" /\ file_index <= Len(files_to_process)
    /\ disk[target_path].exists /\ ~disk[target_path].readable
    /\ Report("read_error")
    /\ UNCHANGED <<header_map, disk, original, files_to_process, locals>>

\* read_text(encoding) raises
DecodeFail ==
    /\ pc = "main" /\ file_index <= Len(files_to_process)
    /\ disk[target_path].exists /\ disk[target_path].readable
    /\ ~disk[target_path].decodable
    /\ Report("decode_error")
    /\ UNCHANGED <<header_map, disk, original, files_to_process, locals>>

\* Steps 1 and 2: detect the format, read the lines
ReadOk ==
    /\ pc = "main" /\ file_index <= Len(files_to_process)
    /\ disk[target_path].exists /\ disk[target_path].readable
    /\ disk[target_path].decodable
    /\ format' = [has_bom |-> disk[target_path].bom,
                  original_newline |-> DetectNewline(disk[target_path].text)]
    /\ lines' = SplitLines(Decode(disk[target_path].text), <<>>)
    /\ line_index' = 1
    /\ scan' = ScanStart
    /\ buckets' = NoBuckets
    /\ new_content' = <<>>
    /\ final_text' = <<>>
    /\ pc' = "scan"
    /\ UNCHANGED <<header_map, disk, original, files_to_process, file_index, outcome>>

\* Step 3: one line of the partition loop
ScanLine ==
    /\ pc = "scan" /\ line_index <= Len(lines)
    /\ scan' = ScanStep(scan, lines[line_index])
    /\ line_index' = line_index + 1
    /\ UNCHANGED <<header_map, disk, original, files_to_process, file_index, pc,
                   outcome, format, lines, buckets, new_content, final_text>>

\* if not include_lines: return
NoIncludes ==
    /\ pc = "scan" /\ line_index > Len(lines)
    /\ scan.include_lines = <<>>
    /\ Report("skipped")
    /\ UNCHANGED <<header_map, disk, original, files_to_process, locals>>

\* Steps 4 to 6: classify every include, reassemble, normalise
Reconstruct ==
    /\ pc = "scan" /\ line_index > Len(lines)
    /\ scan.include_lines /= <<>>
    /\ LET b == ClassifyFrom(scan.include_lines, NoBuckets, target_path, header_map)
           content == Reassemble(scan, b)
       IN  /\ buckets' = b
           /\ new_content' = content
           /\ final_text' = FinalText(content)
    /\ pc' = "write"
    /\ UNCHANGED <<header_map, disk, original, files_to_process, file_index,
                   outcome, format, lines, line_index, scan>>

\* open(target_path, 'w', ...) raises: nothing was written
WriteOpenFail ==
    /\ pc = "write"
    /\ Report("save_error")
    /\ UNCHANGED <<header_map, disk, original, files_to_process, locals>>

\* What a failed write leaves of the encoded text: a proper prefix of it.  The
\* model takes the empty prefix and the first half.
PartialWrites(encoded) ==
    {SubSeq(encoded, 1, k) : k \in {0, Len(encoded) \div 2}}

\* open(target_path, 'w', ...) has truncated the file and f.write raises
WriteFail ==
    /\ pc = "write"
    /\ \E part \in PartialWrites(Encode(final_text, format.original_newline)) :
         disk' = [disk EXCEPT ![target_path].bom = format.has_bom /\ part /= <<>>,
                              ![target_path].text = part]
    /\ Report("save_error")
    /\ UNCHANGED <<header_map, original, files_to_process, locals>>

\* Step 7: the file is rewritten in its encoding and newline style
WriteOk ==
    /\ pc = "write"
    /\ disk' = [disk EXCEPT ![target_path].bom = format.has_bom,
                            ![target_path].text = Encode(final_text, format.original_newline)]
    /\ Report("sorted")
    /\ UNCHANGED <<header_map, original, files_to_process, locals>>

\* The main loop has walked the list
Finish ==
    /\ pc = "main" /\ file_index > Len(files_to_process)
    /\ pc' = "exit"
    /\ UNCHANGED <<header_map, disk, original, files_to_process, file_index,
                   outcome, locals>>

Next ==
    \/ FileNotFound
    \/ ReadBytesFail
    \/ DecodeFail
    \/ ReadOk
    \/ ScanLine
    \/ NoIncludes
    \/ Reconstruct
    \/ WriteOpenFail
    \/ WriteFail
    \/ WriteOk
    \/ Finish

Spec == Init /\ [][Next]_vars

SpecIncludes == InitIncludes /\ [][Next]_vars

\* ------------------------------------------------------------------------
\* Properties
\* ------------------------------------------------------------------------

\* The file sort_single_file has just rewritten; the locals are still its own.
last == files_to_process[file_index - 1]

Written == pc = "main" /\ file_index > 1 /\ outcome[last] = "sorted"

OutLines == SplitLines(Decode(disk[last].text), <<>>)

Count(s, x) == Cardinality({i \in 1..Len(s) : s[i] = x})

Occurs(s, x) == \E i \in 1..Len(s) : s[i] = x

IsAscending(s) == \A i, j \in 1..Len(s) : i < j => ~StrLess(s[j], s[i])

SameLines(s, t) ==
    /\ Len(s) = Len(t)
    /\ \A i \in 1..Len(s) : Count(s, s[i]) = Count(t, s[i])

\* The lines of new_content that belong to a group, in the order emitted
Emitted(group) == SelectSeq(new_content, LAMBDA l : Occurs(group, l))

\* The Prologue and Epilogue of a file as the specification defines them:
\* the lines before the first include line, and the lines from the first
\* non-blank, non-include line after it.
IncludeAt(ls) == {i \in 1..Len(ls) : IsIncludeLine(ls[i])}

FirstInclude(ls) == CHOOSE i \in IncludeAt(ls) : \A j \in IncludeAt(ls) : i <= j

EndersOf(ls) ==
    IF IncludeAt(ls) = {} THEN {}
    ELSE {i \in (FirstInclude(ls) + 1)..Len(ls) :
             ~IsIncludeLine(ls[i]) /\ ~IsBlankLine(ls[i])}

FirstEnder(ls) == CHOOSE i \in EndersOf(ls) : \A j \in EndersOf(ls) : i <= j

Prologue(ls) == SubSeq(ls, 1, FirstInclude(ls) - 1)

Epilogue(ls) ==
    IF EndersOf(ls) = {} THEN <<>> ELSE SubSeq(ls, FirstEnder(ls), Len(ls))

\* The groups of the classification other than main_header
KeyedGroups(d) == {d[i].lines : i \in 1..Len(d)}

NonMainGroups ==
    {buckets.same_module, buckets.engine, buckets.stl}
      \cup KeyedGroups(buckets.other_module) \cup KeyedGroups(buckets.plugins)

\* The groups of a keyed bucket come out in ascending order of their keys
KeysAscending(d) ==
    \A m, n \in 1..Len(d) :
      StrLess(d[m].key, d[n].key) =>
        \A i, j \in 1..Len(new_content) :
          (Occurs(d[m].lines, new_content[i]) /\ Occurs(d[n].lines, new_content[j]))
            => i < j

StemMatches(path) == Stem(target_path) = Stem(path)

UnderEngine(path) ==
    \E i \in 1..Len(path) : path[i] \in {<<"Engine">>, <<"UnrealEngine">>}

SameModuleAs(path) ==
    /\ get_module_name(target_path) /= NoName
    /\ get_module_name(path) /= NoName
    /\ Lower(get_module_name(target_path)) = Lower(get_module_name(path))

UnderPlugins(path) == \E i \in 1..Len(path) : path[i] = <<"Plugins">>

ExpectedKind(path) ==
    CASE StemMatches(path)  -> "main_header"
      [] UnderEngine(path)  -> "engine"
      [] SameModuleAs(path) -> "same_module"
      [] UnderPlugins(path) -> "plugins"
      [] OTHER              -> "other_module"

\* The kinds of the buckets that hold a line
KindsHolding(line) ==
    {k \in {"main_header", "engine", "same_module", "plugins", "other_module", "stl"} :
       CASE k = "main_header" -> Occurs(buckets.main_header, line)
         [] k = "engine" -> Occurs(buckets.engine, line)
         [] k = "same_module" -> Occurs(buckets.same_module, line)
         [] k = "plugins" -> \E g \in KeyedGroups(buckets.plugins) : Occurs(g, line)
         [] k = "other_module" -> \E g \in KeyedGroups(buckets.other_module) : Occurs(g, line)
         [] OTHER -> Occurs(buckets.stl, line)}

ResolvedEntries ==
    {i \in 1..Len(buckets.trace) : buckets.trace[i].path /= NoPath}

\* C4: every resolved include lies in exactly one bucket, the first of main
\* header, engine, same module, plugin, other module that applies to its
\* path; a path with the editing file's stem is always the main header.
C4_FirstMatchWins ==
    pc = "write" =>
      \A i \in ResolvedEntries :
        LET t == buckets.trace[i]
        IN  /\ KindsHolding(t.line) = {ExpectedKind(t.path)}
            /\ StemMatches(t.path) => KindsHolding(t.line) = {"main_header"}

\* An include with the editing file's stem whose path lies under Engine.
C4_Witness ==
    /\ pc = "write"
    /\ \E i \in ResolvedEntries :
         /\ StemMatches(buckets.trace[i].path)
         /\ UnderEngine(buckets.trace[i].path)
         /\ Occurs(buckets.main_header, buckets.trace[i].line)

\* The number of leading parts two directories share
CommonPrefix(a, b) ==
    LET n == IF Len(a) < Len(b) THEN Len(a) ELSE Len(b)
        agree == {k \in 0..n : \A m \in 1..k : a[m] = b[m]}
    IN  CHOOSE k \in agree : \A m \in agree : m <= k

Closeness(candidate) ==
    CommonPrefix(ParentParts(target_path), ParentParts(candidate))

\* The candidate with the highest closeness, the earliest of them
Nearest(candidates) ==
    candidates[CHOOSE i \in 1..Len(candidates) :
                 /\ \A j \in 1..Len(candidates) :
                      Closeness(candidates[j]) <= Closeness(candidates[i])
                 /\ \A j \in 1..(i - 1) :
                      Closeness(candidates[j]) < Closeness(candidates[i])]

\* The candidates whose forward-slash path ends with the reference
SuffixMatches(t) ==
    {i \in 1..Len(t.candidates) :
       EndsWith(AsPosix(t.candidates[i]), Replace(t.content, "\\", "/"))}

\* C5: with two or more candidates none of which ends with the reference,
\* the resolution is the candidate that shares the most leading directories
\* with the editing file, the earliest in the list among equals, and is never
\* absent.
C5_NearestNeighbour ==
    pc = "write" =>
      \A i \in 1..Len(buckets.trace) :
        LET t == buckets.trace[i]
        IN  (Len(t.candidates) >= 2 /\ SuffixMatches(t) = {}) =>
              t.path /= NoPath /\ t.path = Nearest(t.candidates)

\* No suffix match, two candidates tie for the highest closeness, and the
\* first candidate of the list is not among them.
C5_Witness ==
    /\ pc = "write"
    /\ \E i \in 1..Len(buckets.trace) :
         LET t == buckets.trace[i]
         IN  /\ Len(t.candidates) >= 2 /\ SuffixMatches(t) = {}
             /\ t.path /= t.candidates[1]
             /\ \E j \in 1..Len(t.candidates) :
                  /\ t.candidates[j] /= t.path
                  /\ Closeness(t.candidates[j]) = Closeness(t.path)

C9_AmbiguousSuffixFallsThrough ==
    pc = "write" =>
      \A i \in 1..Len(buckets.trace) :
        LET t == buckets.trace[i]
        IN  Cardinality(SuffixMatches(t)) >= 2 => t.path = Nearest(t.candidates)

\* Files in which no other defect of the rewrite is in play: no include line
\* follows the Epilogue's first line, the last line is code without trailing
\* white space, and every include line has a quoted or bracketed reference.
ContiguousIncludes(ls) ==
    EndersOf(ls) /= {} =>
      \A i \in FirstEnder(ls)..Len(ls) : ~IsIncludeLine(ls[i])

EndsInCode(ls) ==
    /\ ls /= <<>>
    /\ ~IsBlankLine(ls[Len(ls)]) /\ ~IsIncludeLine(ls[Len(ls)])
    /\ RStrip(ls[Len(ls)]) = ls[Len(ls)]

AllReferenced(ls) ==
    \A i \in IncludeAt(ls) : get_include_content(ls[i]) /= NoContent

\* C1: the rewrite changes only the include block.  The output is the
\* Prologue without its trailing blank lines, one blank line, include lines
\* and their separators, then the Epilogue without its leading blank lines;
\* every other Prologue and Epilogue line, blank lines and runs of blank lines
\* included, stands verbatim.  (Stated for the files described above.)
C1_OnlyIncludeBlockChanges ==
    (Written /\ ContiguousIncludes(lines) /\ EndsInCode(lines) /\ AllReferenced(lines)) =>
      LET P == TrimTop(Prologue(lines))
          E == TrimBottom(Epilogue(lines))
          out == OutLines
      IN  /\ Len(out) >= Len(P) + 1 + Len(E)
          /\ SubSeq(out, 1, Len(P)) = P
          /\ out[Len(P) + 1] = Blank
          /\ SubSeq(out, Len(out) - Len(E) + 1, Len(out)) = E
          /\ \A i \in (Len(P) + 2)..(Len(out) - Len(E)) :
               IsBlankLine(out[i]) \/ IsIncludeLine(out[i])

\* C2: sorting a file that sort_single_file has just sorted, against the same
\* index, leaves it as it is: the same text, byte-order mark and newlines.
C2_Idempotent ==
    Written => RewriteFile(disk[last], last, header_map) = disk[last]

\* C6: a file whose processing ended as a skip or an error is on disk as it
\* was when the run began, and when the main loop ends every file of the list
\* has been processed.
C6_FailedFileUntouched ==
    /\ \A p \in Paths :
         outcome[p] \notin {"pending", "sorted"} => disk[p] = original[p]
    /\ pc = "exit" =>
         \A i \in 1..Len(files_to_process) : outcome[files_to_process[i]] /= "pending"

\* The lines the partition loop has consumed
Consumed == SubSeq(lines, 1, line_index - 1)

\* C8: once a non-blank, non-include line has ended collection the loop is
\* never collecting again: every later line, include lines and blank lines
\* included, is in the Epilogue at its place and none joins the include block.
C8_CollectionNeverResumes ==
    (pc \in {"scan", "write"} /\ EndersOf(Consumed) /= {}) =>
      /\ ~scan.inside_include_block
      /\ scan.other_lines_bottom = Epilogue(Consumed)
      /\ scan.include_lines =
           SelectSeq(SubSeq(Consumed, 1, FirstEnder(Consumed) - 1), IsIncludeLine)

\* C10: every include line of the input, with or without a reference that
\* can be extracted, is in the output verbatim and as often as in the input.
\* (Stated for files whose last line is code, where stripping the end of the
\* file touches no include line.)
C10_IncludesConserved ==
    (Written /\ EndsInCode(lines)) =>
      \A i \in IncludeAt(lines) : Count(OutLines, lines[i]) = Count(lines, lines[i])

=============================================================================
